---------------------------- MODULE Spec2Model ----------------------------
(***************************************************************************)
(* Drift-A-Tone (driftatone.py): four Lorenz-driven voices, the audio      *)
(* callback that renders them, and the key handlers that share their       *)
(* state with it.                                                          *)
(*                                                                         *)
(* Real numbers are held in fixed point:                                   *)
(*   - attractor coordinates x, y, z in units of 1/Fix;                    *)
(*   - sigma, rho, beta in units of 1/ParamScale;                          *)
(*   - entropy in steps of 0.02 (EntropyMax steps make 1.0);               *)
(*   - pulse and wave samples in units of 1/Scale;                         *)
(*   - outdata in units of 1/(Scale * MixScale), so that the division by   *)
(*     the number of voices (1..4) is exact;                               *)
(*   - pitch_shift in tenths (the handlers move it by 0.1);                *)
(*   - time.time() in whole seconds.                                       *)
(***************************************************************************)
EXTENDS Integers, Sequences, FiniteSets

(* ------------------------------ bounds -------------------------------- *)
\* key events the UI thread dispatches in one behaviour
MaxEvents == 2
\* audio blocks the stream requests in one behaviour
MaxBlocks == 1
\* the block length the stream requests (besides the empty block)
MaxFrames == 20
\* the range of pitch_shift (in tenths) the rendering harness starts from
MaxUp == 28
MaxDown == 2
\* the clock's horizon, in seconds: a refresh can fall due
MaxTime == 3

(* ------------------------- program constants -------------------------- *)
sample_rate == 44100
PulseLen == 512
Samples == 400
DtInv == 200
HannLen == 21
MinCycle == 16
RefreshAfter == 2
EntropyMax == 50

Voices == {"1", "2", "3", "4"}

base_frequencies == [k \in Voices |->
    CASE k = "1" -> 110 [] k = "2" -> 220 [] k = "3" -> 330 [] k = "4" -> 440]

\* fixed-point resolutions
Fix == 5 * 100
ParamScale == 3 * 100
Scale == 10 * 100
HannScale == 10 * 100
PowScale == 100 * 100
MixScale == 3 * 4

(* ----------------------------- arithmetic ----------------------------- *)
Abs(a) == IF a < 0 THEN -a ELSE a

Min(a, b) == IF a < b THEN a ELSE b

Max(a, b) == IF a < b THEN b ELSE a

\* a / b rounded toward zero (b > 0)
Quot(a, b) == IF a < 0 THEN -((-a) \div b) ELSE a \div b

\* a / (m + 1e-6) for a fixed-point table entry a and peak m >= |a|, in units
\* of 1/Scale: the epsilon keeps 0 / 0 at 0 and is below the resolution elsewhere
EpsDiv(a, m) == IF m = 0 THEN 0 ELSE Quot(a * Scale, m)

\* np.max(np.abs(s)) (0 for an empty s)
MaxAbs(s) ==
    LET mags == {Abs(s[i]) : i \in 1..Len(s)}
    IN  IF mags = {} THEN 0 ELSE CHOOSE m \in mags : \A a \in mags : a <= m

\* np.zeros(n)
Zeros(n) == [i \in 1..n |-> 0]

\* the table f as an explicit sequence (each entry evaluated once)
Table(f) == f \o <<>>

(* --------------------------- LorenzCircle ----------------------------- *)
\* sigma, rho, beta as update_entropy sets them (and __init__, with entropy 0)
SigmaOf(e) == 10 * ParamScale + (6 * ParamScale * e) \div EntropyMax
RhoOf(e) == 28 * ParamScale + (20 * ParamScale * e) \div EntropyMax
BetaOf(e) == (8 * ParamScale) \div 3 + (5 * ParamScale * e) \div (2 * EntropyMax)

NewCircle(t) ==
    [x |-> Fix \div 10, y |-> 0, z |-> 0,
     sigma |-> SigmaOf(0), rho |-> RhoOf(0), beta |-> BetaOf(0),
     entropy |-> 0, pulse |-> Zeros(PulseLen), last_update |-> t]

\* one explicit Euler step with dt = 1/DtInv
step(c) ==
    LET dx == (c.sigma * (c.y - c.x)) \div ParamScale
        dy == (c.x * ((c.rho * Fix) \div ParamScale - c.z)) \div Fix - c.y
        dz == (c.x * c.y) \div Fix - (c.beta * c.z) \div ParamScale
    IN  [c EXCEPT !.x = c.x + dx \div DtInv,
                  !.y = c.y + dy \div DtInv,
                  !.z = c.z + dz \div DtInv]

AddEntropyMut(e) == e + 1

\* min(entropy + 0.02, 1.0)
AddEntropy(e) == Min(e + 1, EntropyMax)

update_entropy(c) ==
    LET e == AddEntropy(c.entropy)
    IN  [c EXCEPT !.entropy = e,
                  !.sigma = SigmaOf(e), !.rho = RhoOf(e), !.beta = BetaOf(e)]

\* the loop of build_pulse: n steps from circle c, summing the series xs, ys, zs
\* (the n iterations are run as two halves, the first evaluated before the
\* second starts, to keep the evaluation shallow)
RECURSIVE Integrate(_, _)
Integrate(r, n) ==
    IF n = 0 THEN r
    ELSE IF n = 1
    THEN LET c == step(r.c)
         IN  [c |-> c, sx |-> r.sx + c.x, sy |-> r.sy + c.y, sz |-> r.sz + c.z]
    ELSE LET h == Integrate(r, n \div 2)
         IN  IF h.sx \in Int THEN Integrate(h, n - n \div 2) ELSE h

\* np.hanning(21), in units of 1/HannScale
Hanning == <<0, 24, 95, 206, 345, 500, 655, 794, 905, 976, 1000,
             976, 905, 794, 655, 500, 345, 206, 95, 24, 0>>

\* nodes: (bottom, center, crest), centred and scaled to peak 1
Nodes(sx, sy, sz) ==
    LET raw == <<sx \div Samples, sy \div Samples, sz \div Samples>>
        mean == (raw[1] + raw[2] + raw[3]) \div 3
        cen == [i \in 1..3 |-> raw[i] - mean]
        m == MaxAbs(cen)
    IN  [i \in 1..3 |-> EpsDiv(cen[i], m)]

\* the stepped table: three contiguous thirds, one node each
Stepped(nodes) ==
    LET third == PulseLen \div 3
    IN  [i \in 1..PulseLen |->
            IF i <= third THEN nodes[1]
            ELSE IF i <= 2 * third THEN nodes[2] ELSE nodes[3]]

HalfHann == (HannLen - 1) \div 2

\* np.convolve(p, np.hanning(21), mode='same'): entry i is the sum over the
\* window of p[i + j] * hanning[10 - j], with p taken as 0 outside the table
Convolve(p) ==
    LET Tap(i, j) == IF i + j > 0 /\ i + j <= PulseLen
                     THEN p[i + j] * Hanning[HalfHann + 1 - j] ELSE 0
        RECURSIVE Sum(_, _)
        Sum(i, j) == IF j > HalfHann THEN 0 ELSE Tap(i, j) + Sum(i, j + 1)
    IN  [i \in 1..PulseLen |-> Sum(i, -HalfHann) \div HannScale]

\* pulse += entropy * 0.4 * pulse^3
Distort(p, e) ==
    [i \in 1..PulseLen |->
        LET v == p[i]
            cube == Quot(Quot(v * v, Scale) * v, Scale)
        IN  v + Quot(2 * e * cube, 5 * EntropyMax)]

NormalizeMut(p) == p

\* pulse /= np.max(np.abs(pulse)) + 1e-6
Normalize(p) ==
    LET m == MaxAbs(p)
    IN  [i \in 1..PulseLen |-> EpsDiv(p[i], m)]

\* build_pulse: the circle after the 400 steps, and the table it assigns
build_pulse(c) ==
    LET r == Integrate([c |-> c, sx |-> 0, sy |-> 0, sz |-> 0], Samples)
        nodes == Table(Nodes(r.sx, r.sy, r.sz))
        smooth == Table(Convolve(Table(Stepped(nodes))))
        shaped == Table(Distort(smooth, c.entropy))
    IN  [c |-> r.c, pulse |-> Table(Normalize(shaped))]

\* update_entropy() then build_pulse(), lines 101-102
Rebuild(c) == build_pulse(update_entropy(c))

\* the attractor fields of a circle: all that Rebuild reads
Core(c) == <<c.x, c.y, c.z, c.sigma, c.rho, c.beta, c.entropy>>

\* the first n rebuilds of a new circle, each from the circle the last one left
RECURSIVE OrbitUpTo(_)
OrbitUpTo(n) ==
    IF n = 0 THEN <<[c |-> NewCircle(0), pulse |-> Zeros(PulseLen)]>>
    ELSE LET prev == OrbitUpTo(n - 1)
         IN  IF Len(prev) = n THEN Append(prev, Rebuild(prev[n].c)) ELSE prev

OrbitLen == EntropyMax + 2

Orbit == OrbitUpTo(OrbitLen)

\* Rebuild(c), read from Orbit when c's attractor fields are on it (Rebuild is a
\* function of them alone) and computed otherwise
Refreshed(c) ==
    IF \E n \in 1..OrbitLen : Core(Orbit[n].c) = Core(c)
    THEN LET n == CHOOSE m \in 1..OrbitLen : Core(Orbit[m].c) = Core(c)
             b == Orbit[n + 1]
         IN  [c |-> [b.c EXCEPT !.pulse = c.pulse, !.last_update = c.last_update],
              pulse |-> b.pulse]
    ELSE Rebuild(c)

\* the circle after n refreshes since construction, the last at time t
CircleAfter(n, t) ==
    [Orbit[n + 1].c EXCEPT !.pulse = Orbit[n + 1].pulse, !.last_update = t]

\* maybe_update's test: more than 2 seconds since the last refresh
RefreshDueMut(c, t) == t - c.last_update >= RefreshAfter

RefreshDue(c, t) == t - c.last_update > RefreshAfter

(* --------------------------- audio_callback --------------------------- *)
HardSilenceMut(frames) == [i \in 1..frames |-> 1]

\* np.zeros((frames, 1)), the hard silence default
HardSilence(frames) == Zeros(frames)

SnapshotMut(keys) == Voices

\* list(active_keys)
Snapshot(keys) == keys

\* 2 ** (r / 10) for r = 0..9, in units of 1/PowScale
Pow2Tenths == <<10000, 10718, 11487, 12311, 13195, 14142, 15157, 16245,
                17411, 18661>>

RECURSIVE Pow2(_)
Pow2(n) == IF n = 0 THEN 1 ELSE 2 * Pow2(n - 1)

\* sample_rate / freq as a fraction num / den, freq = base * 2 ** (shift / 10)
RatioNum(shift) ==
    sample_rate * PowScale * (IF shift < 0 THEN Pow2(-(shift \div 10)) ELSE 1)

RatioDen(key, shift) ==
    base_frequencies[key] * Pow2Tenths[(shift % 10) + 1]
        * (IF shift < 0 THEN 1 ELSE Pow2(shift \div 10))

CycleLengthMut(key, shift) == RatioNum(shift) \div RatioDen(key, shift)

\* samples_per_cycle = max(16, int(sample_rate / freq))
CycleLength(key, shift) ==
    Max(MinCycle, RatioNum(shift) \div RatioDen(key, shift))

\* entry j (from 0) of np.interp(np.linspace(0, 512, spc, endpoint=False),
\* np.arange(512), pulse): linear between neighbours, the last entry beyond 511
CycleAt(pulse, spc, j) ==
    LET i == (j * PulseLen) \div spc
        r == (j * PulseLen) % spc
    IN  IF i >= PulseLen - 1 THEN pulse[PulseLen]
        ELSE pulse[i + 1] + ((pulse[i + 2] - pulse[i + 1]) * r) \div spc

\* np.tile(cycle, repeats)[:frames]
Wave(pulse, spc, frames) ==
    [i \in 1..frames |-> CycleAt(pulse, spc, (i - 1) % spc)]

AddWave(total, wave) == [i \in 1..Len(total) |-> total[i] + wave[i]]

MixDownMut(total, n) == [i \in 1..Len(total) |-> total[i] * MixScale * n]

\* total_wave /= len(keys), in units of 1/(Scale * MixScale)
MixDown(total, n) == [i \in 1..Len(total) |-> (total[i] * MixScale) \div n]

(* ------------------------------ handlers ------------------------------ *)
PressEvents == Voices \cup {"5", "Up", "Down"}

\* key = (event.char if event.char else event.keysym).lower()
KeyOf(ev) == IF ev = "Up" THEN "up" ELSE IF ev = "Down" THEN "down" ELSE ev

\* ord(key) of the one-character voice keys, the order max() compares them by
Ord == [k \in Voices |->
    CASE k = "1" -> 49 [] k = "2" -> 50 [] k = "3" -> 51 [] k = "4" -> 52]

\* max(active_keys)
Rightmost(keys) == CHOOSE k \in keys : \A j \in keys : Ord[j] <= Ord[k]

\* combined /= len(active_keys)
Average(sum, n) == [i \in 1..PulseLen |-> Quot(sum[i], n)]

RECURSIVE SumPulses(_, _)
SumPulses(tables, keys) ==
    IF keys = {} THEN Zeros(PulseLen)
    ELSE LET k == CHOOSE j \in keys : TRUE
         IN  AddWave(SumPulses(tables, keys \ {k}), tables[k])

(* ------------------------------- state -------------------------------- *)
VARIABLES
    now,                \* time.time()
    lock,               \* who holds the lock: "free", "ui" or "audio"
    active_keys,
    pitch_shift,
    circles,
    stream,             \* outdata, and the number of blocks requested so far
    cb,                 \* the audio thread: audio_callback's position and locals
    ui,                 \* the UI thread: the handler's position and locals
    events              \* the number of key events dispatched so far

vars == <<now, lock, active_keys, pitch_shift, circles, stream, cb, ui, events>>

CbIdle ==
    [pc |-> "idle", frames |-> 0, keys |-> {}, shift |-> 0, left |-> {},
     key |-> "", new_pulse |-> <<>>, total_wave |-> <<>>,
     samples_per_cycle |-> 0, peak_sum |-> 0]

UiIdle ==
    [pc |-> "idle", event |-> "", rightmost |-> "", combined |-> <<>>,
     left |-> {}, before |-> <<>>]

Init ==
    /\ now = 0
    /\ lock = "free"
    /\ active_keys = {}
    /\ pitch_shift = 0
    /\ circles = [k \in Voices |-> NewCircle(0)]
    /\ stream = [outdata |-> <<>>, blocks |-> 0]
    /\ cb = CbIdle
    /\ ui = UiIdle
    /\ events = 0

(* ------------------------------- clock -------------------------------- *)
Tick ==
    /\ now < MaxTime
    /\ now' = now + 1
    /\ UNCHANGED <<lock, active_keys, pitch_shift, circles, stream, cb, ui, events>>

(* ---------------------------- audio thread ---------------------------- *)
FrameChoices == {0, MaxFrames}

\* lines 111-115: a block of `frames` samples is requested: silence by
\* default, then the lock and the copy of active_keys
CbStart(frames) ==
    /\ cb.pc = "idle"
    /\ stream.blocks < MaxBlocks
    /\ lock = "free"
    /\ lock' = "audio"
    /\ stream' = [outdata |-> HardSilence(frames), blocks |-> stream.blocks + 1]
    /\ cb' = [CbIdle EXCEPT !.pc = "locked", !.frames = frames,
                            !.keys = Snapshot(active_keys)]
    /\ UNCHANGED <<now, active_keys, pitch_shift, circles, ui, events>>

\* lines 116-119: the copy of pitch_shift, the unlock, and no keys: return
CbReturnSilence ==
    /\ cb.pc = "locked"
    /\ cb.keys = {}
    /\ lock' = "free"
    /\ cb' = CbIdle
    /\ UNCHANGED <<now, active_keys, pitch_shift, circles, stream, ui, events>>

\* lines 116-121: the copy of pitch_shift, the unlock, and the empty sum
CbBeginMix ==
    /\ cb.pc = "locked"
    /\ cb.keys # {}
    /\ lock' = "free"
    /\ cb' = [cb EXCEPT !.pc = "voice", !.shift = pitch_shift, !.left = cb.keys,
                        !.total_wave = Zeros(cb.frames)]
    /\ UNCHANGED <<now, active_keys, pitch_shift, circles, stream, ui, events>>

\* lines 123-125, 100-102: the next key's circle is due: update_entropy and
\* build_pulse up to (not including) the assignment of self.pulse
CbRefresh(k) ==
    /\ cb.pc = "voice"
    /\ k \in cb.left
    /\ RefreshDue(circles[k], now)
    /\ LET b == Refreshed(circles[k])
       IN  /\ circles' = [circles EXCEPT ![k] = b.c]
           /\ cb' = [cb EXCEPT !.pc = "assign", !.key = k, !.new_pulse = b.pulse,
                               !.samples_per_cycle = 0]
    /\ UNCHANGED <<now, lock, active_keys, pitch_shift, stream, ui, events>>

\* lines 97, 103: self.pulse = pulse; self.last_update = time.time()
CbAssign ==
    /\ cb.pc = "assign"
    /\ circles' = [circles EXCEPT ![cb.key].pulse = cb.new_pulse,
                                  ![cb.key].last_update = now]
    /\ cb' = [cb EXCEPT !.pc = "mix", !.new_pulse = <<>>]
    /\ UNCHANGED <<now, lock, active_keys, pitch_shift, stream, ui, events>>

\* lines 123-142: maybe_update is over for key k (the circle was not due, or
\* its refresh is done); the key's cycle, tiled to the block, is added to
\* total_wave
CbMix(k) ==
    /\ \/ cb.pc = "mix" /\ k = cb.key
       \/ cb.pc = "voice" /\ k \in cb.left /\ ~RefreshDue(circles[k], now)
    /\ LET pulse == circles[k].pulse
           spc == CycleLength(k, cb.shift)
           left == cb.left \ {k}
       IN  cb' = [cb EXCEPT
                    !.pc = IF left = {} THEN "finish" ELSE "voice",
                    !.key = k,
                    !.left = left,
                    !.samples_per_cycle = spc,
                    !.peak_sum = cb.peak_sum + MaxAbs(pulse),
                    !.total_wave = AddWave(cb.total_wave, Wave(pulse, spc, cb.frames))]
    /\ UNCHANGED <<now, lock, active_keys, pitch_shift, circles, stream, ui, events>>

\* lines 144-146: the average, written to outdata
CbFinish ==
    /\ cb.pc = "finish"
    /\ stream' = [stream EXCEPT
                    !.outdata = MixDown(cb.total_wave, Cardinality(cb.keys))]
    /\ cb' = CbIdle
    /\ UNCHANGED <<now, lock, active_keys, pitch_shift, circles, ui, events>>

audio_callback ==
    \/ \E frames \in FrameChoices : CbStart(frames)
    \/ CbReturnSilence
    \/ CbBeginMix
    \/ \E k \in Voices : CbRefresh(k)
    \/ CbAssign
    \/ \E k \in Voices : CbMix(k)
    \/ CbFinish

(* ----------------------------- UI thread ------------------------------ *)
\* lines 200-209: the lock, the voice key added, and for "5" with a key held
\* the start of the blend
OnPressLock(ev) ==
    /\ ui.pc = "idle"
    /\ events < MaxEvents
    /\ lock = "free"
    /\ lock' = "ui"
    /\ events' = events + 1
    /\ LET key == KeyOf(ev)
           keys == IF key \in DOMAIN base_frequencies
                   THEN active_keys \cup {key} ELSE active_keys
       IN  /\ active_keys' = keys
           /\ ui' = IF key = "5" /\ keys # {}
                    THEN [pc |-> "blend", event |-> ev, rightmost |-> Rightmost(keys),
                          combined |-> Zeros(PulseLen), left |-> keys,
                          before |-> [k \in Voices |-> circles[k].pulse]]
                    ELSE [UiIdle EXCEPT !.pc = "unlock", !.event = ev]
    /\ UNCHANGED <<now, pitch_shift, circles, stream, cb>>

\* lines 210-211: combined += circles[k].pulse, for the next key of the set
OnPressBlendAdd(k) ==
    /\ ui.pc = "blend"
    /\ k \in ui.left
    /\ ui' = [ui EXCEPT !.combined = AddWave(ui.combined, circles[k].pulse),
                        !.left = ui.left \ {k}]
    /\ UNCHANGED <<now, lock, active_keys, pitch_shift, circles, stream, cb, events>>

\* lines 212-213: the average, assigned to the rightmost circle's pulse
OnPressBlendAssign ==
    /\ ui.pc = "blend"
    /\ ui.left = {}
    /\ circles' = [circles EXCEPT ![ui.rightmost].pulse =
                        Average(ui.combined, Cardinality(active_keys))]
    /\ ui' = [UiIdle EXCEPT !.pc = "unlock", !.event = ui.event]
    /\ UNCHANGED <<now, lock, active_keys, pitch_shift, stream, cb, events>>

\* the end of on_press's with-block
OnPressUnlock ==
    /\ ui.pc = "unlock"
    /\ lock' = "free"
    /\ ui' = IF ui.event \in {"Up", "Down"} THEN [ui EXCEPT !.pc = "pitch"] ELSE UiIdle
    /\ UNCHANGED <<now, active_keys, pitch_shift, circles, stream, cb, events>>

\* lines 215-218: pitch_shift += 0.1 or -= 0.1
OnPressPitch ==
    /\ ui.pc = "pitch"
    /\ pitch_shift' = IF ui.event = "Up" THEN pitch_shift + 1 ELSE pitch_shift - 1
    /\ ui' = UiIdle
    /\ UNCHANGED <<now, lock, active_keys, circles, stream, cb, events>>

on_press ==
    \/ \E ev \in PressEvents : OnPressLock(ev)
    \/ \E k \in Voices : OnPressBlendAdd(k)
    \/ OnPressBlendAssign
    \/ OnPressUnlock
    \/ OnPressPitch

\* lines 221-225: the lock, and the key removed if it is held (the keys that
\* can be released are the voice keys that are down, which are those held)
OnReleaseLock(ev) ==
    /\ ui.pc = "idle"
    /\ ev \in active_keys
    /\ events < MaxEvents
    /\ lock = "free"
    /\ lock' = "ui"
    /\ events' = events + 1
    /\ active_keys' = active_keys \ {KeyOf(ev)}
    /\ ui' = [UiIdle EXCEPT !.pc = "released", !.event = ev]
    /\ UNCHANGED <<now, pitch_shift, circles, stream, cb>>

\* the end of on_release's with-block
OnReleaseUnlock ==
    /\ ui.pc = "released"
    /\ lock' = "free"
    /\ ui' = UiIdle
    /\ UNCHANGED <<now, active_keys, pitch_shift, circles, stream, cb, events>>

on_release ==
    \/ \E ev \in Voices : OnReleaseLock(ev)
    \/ OnReleaseUnlock

(* --------------------------- specifications --------------------------- *)
Next == Tick \/ audio_callback \/ on_press \/ on_release

Spec == Init /\ [][Next]_vars

(* ------------------------- the rendering harness ---------------------- *)
\* the sets of held keys a block is rendered for
HeldChoices == {{}} \cup {{k} : k \in Voices} \cup {Voices}

\* the audio thread alone, for any pitch_shift the arrow keys can have left,
\* at construction time or once every circle is due
InitRender ==
    /\ now \in {0, MaxTime}
    /\ lock = "free"
    /\ active_keys \in HeldChoices
    /\ pitch_shift \in (-MaxDown)..MaxUp
    /\ circles = [k \in Voices |-> NewCircle(0)]
    /\ stream = [outdata |-> <<>>, blocks |-> 0]
    /\ cb = CbIdle
    /\ ui = UiIdle
    /\ events = 0

NextRender == audio_callback

SpecRender == InitRender /\ [][NextRender]_vars

(* --------------------------- a long session --------------------------- *)
\* the program after a long session: voices "1" and "3" refreshed
\* EntropyMax - 1 times, voices "2" and "4" EntropyMax times, the last time
\* just now, and every key released since
InitWarm ==
    /\ now = 0
    /\ lock = "free"
    /\ active_keys = {}
    /\ pitch_shift = 0
    /\ circles = [k \in Voices |->
                    IF k \in {"1", "3"} THEN CircleAfter(EntropyMax - 1, 0)
                    ELSE CircleAfter(EntropyMax, 0)]
    /\ stream = [outdata |-> <<>>, blocks |-> 0]
    /\ cb = CbIdle
    /\ ui = UiIdle
    /\ events = 0

SpecWarm == InitWarm /\ [][Next]_vars


(* ------------------------------- claims ------------------------------- *)
\* C1, as stated: the cycle length a block uses for a voice is
\* max(16, round(sample_rate / frequency)).
C1_CycleLengthRounds ==
    cb.samples_per_cycle # 0 =>
        LET num == RatioNum(cb.shift)
            den == RatioDen(cb.key, cb.shift)
            rounded == num \div den + (IF 2 * (num % den) >= den THEN 1 ELSE 0)
        IN  cb.samples_per_cycle = (IF rounded < MinCycle THEN MinCycle ELSE rounded)

\* C1: the cycle length n a block uses for a voice is never below 16; above 16
\* it is sample_rate / frequency truncated (n <= ratio < n + 1), and it is 16
\* exactly when the ratio is below 17, so whenever the ratio is below 16.
C1_CycleLengthTruncates ==
    cb.samples_per_cycle # 0 =>
        LET num == RatioNum(cb.shift)
            den == RatioDen(cb.key, cb.shift)
            n == cb.samples_per_cycle
        IN  /\ n >= MinCycle
            /\ n > MinCycle => n * den <= num /\ num < (n + 1) * den
            /\ n = MinCycle <=> num < (MinCycle + 1) * den

\* voice "1" at pitch_shift 0 is rendered with a cycle of 400 samples
C1_Witness ==
    cb.key = "1" /\ cb.shift = 0 /\ cb.samples_per_cycle = 400

C3_OutputBounded ==
    /\ [](\A i \in 1..Len(stream.outdata) :
                Abs(stream.outdata[i]) <= Scale * MixScale)
    /\ [][cb.pc = "finish" /\ cb'.pc = "idle" =>
            /\ Len(stream'.outdata) = cb.frames
            /\ Cardinality(cb.keys) * MaxAbs(stream'.outdata)
                    <= MixScale * cb.peak_sum]_vars

\* a block with a sample other than zero has been written
C3_Witness ==
    cb.pc = "idle" /\ \E i \in 1..Len(stream.outdata) : stream.outdata[i] # 0

\* C4: entropy stays within [0, 1] and never decreases; each refresh raises it
\* by one step of 0.02 until it is exactly 1, where it stays.
C4_EntropyMonotone ==
    /\ \A k \in Voices : circles[k].entropy \in 0..EntropyMax
    /\ [][\A k \in Voices :
            LET e == circles[k].entropy
                f == circles'[k].entropy
            IN  /\ e <= f /\ f <= EntropyMax
                /\ cb.pc = "voice" /\ cb'.pc = "assign" /\ cb'.key = k =>
                        f = (IF e < EntropyMax THEN e + 1 ELSE EntropyMax)
                /\ f # e => cb.pc = "voice" /\ cb'.pc = "assign" /\ cb'.key = k]_vars

\* a circle refreshed once more after its entropy had reached 1
C4_Witness ==
    \E k \in Voices : Core(circles[k]) = Core(Orbit[EntropyMax + 2].c)

\* C5, as stated: a blend with keys held leaves the rightmost held voice's
\* pulse equal to the average of the held voices' pulses as they were when the
\* call began, and changes nothing else.
C5_BlendAveragesHeld ==
    [][ui.pc = "blend" /\ ui'.pc = "unlock" =>
        LET r == Rightmost(active_keys)
        IN  /\ circles'[r].pulse =
                    Average(SumPulses(ui.before, active_keys), Cardinality(active_keys))
            /\ circles' = [circles EXCEPT ![r].pulse = circles'[r].pulse]
            /\ active_keys' = active_keys
            /\ pitch_shift' = pitch_shift]_vars

\* C6: a block whose snapshot is empty returns with outdata holding exactly
\* `frames` zeros and with no circle changed since the block began.
C6_SilentBlock ==
    [][/\ cb.pc = "idle" /\ cb'.pc = "locked" => circles' = circles
       /\ cb.pc = "locked" /\ cb.keys = {} /\ cb'.pc # "locked" =>
            /\ cb'.pc = "idle"
            /\ Len(stream'.outdata) = cb.frames
            /\ \A i \in 1..cb.frames : stream'.outdata[i] = 0
            /\ circles' = circles]_vars

\* with no key ever pressed, a block of MaxFrames samples has returned
C6_Witness ==
    /\ events = 0 /\ stream.blocks > 0 /\ cb.pc = "idle"
    /\ Len(stream.outdata) = MaxFrames

\* C7, as stated: every circle is refreshed once 2 seconds have passed,
\* whether or not its voice is active: a block does not return leaving a
\* circle it did not visit due.
C7_EveryCircleRefreshed ==
    [][cb.pc # "idle" /\ cb'.pc = "idle" =>
        \A k \in Voices \ cb.keys : now' - circles'[k].last_update <= RefreshAfter]_vars

\* C7: a circle is refreshed only by a block whose snapshot holds its voice,
\* and only when more than 2 seconds have passed since its last refresh; a
\* snapshot voice is mixed without a refresh only when it is not due.
C7_RefreshOnlyWhenRendered ==
    [][\A k \in Voices :
        /\ Core(circles'[k]) # Core(circles[k]) =>
                /\ cb.pc = "voice" /\ cb'.pc = "assign" /\ cb'.key = k
                /\ k \in cb.keys
                /\ now - circles[k].last_update > RefreshAfter
        /\ circles'[k].last_update # circles[k].last_update =>
                /\ cb.pc = "assign" /\ cb.key = k /\ k \in cb.keys
                /\ circles'[k].last_update = now
        /\ cb.pc = "voice" /\ k \in cb.left /\ k \notin cb'.left =>
                now - circles[k].last_update <= RefreshAfter]_vars

\* one circle has been refreshed while another, due as well, has not
C7_Witness ==
    \E k, j \in Voices :
        /\ circles[k].last_update > 0
        /\ circles[j].entropy = 0 /\ now - circles[j].last_update > RefreshAfter

\* C8, as stated: active_keys and pitch_shift are written only by a thread
\* that holds the lock.
C8_WritesUnderLock ==
    [][active_keys' # active_keys \/ pitch_shift' # pitch_shift => lock' = "ui"]_vars

\* C9, as stated: while the blend is between its first read and its last
\* write, the audio thread is neither inside maybe_update nor about to read a
\* pulse it has just refreshed.
C9_BlendExcludesRendering ==
    ui.pc = "blend" => cb.pc \notin {"assign", "mix"}

\* C10: a block's key list is the active set as it is when the block takes
\* the lock, and its shift is pitch_shift as it is before the lock is given
\* up; neither changes while the block is rendered, and the block mixes each
\* key of the list once and no other key.
C10_BlockFromSnapshot ==
    [][/\ cb.pc = "idle" /\ cb'.pc = "locked" =>
            cb'.keys = active_keys /\ lock' = "audio"
       /\ cb.pc # "idle" /\ cb'.pc # "idle" => cb'.keys = cb.keys
       /\ cb.pc = "locked" /\ cb'.pc = "voice" =>
            cb'.left = cb.keys /\ cb'.shift = pitch_shift /\ lock = "audio"
       /\ cb.pc \notin {"idle", "locked"} /\ cb'.pc # "idle" => cb'.shift = cb.shift
       /\ cb.pc \in {"voice", "mix"} /\ cb'.left # cb.left =>
            \E k \in cb.keys \cap cb.left :
                cb'.left = cb.left \ {k} /\ cb'.key = k
       /\ cb.pc = "finish" /\ cb'.pc = "idle" => cb.left = {}]_vars

\* a key released, the handler over, and the block in progress still mixes it
C10_Witness ==
    /\ cb.pc \in {"voice", "assign", "mix", "finish"}
    /\ ui.pc = "idle"
    /\ \E k \in cb.keys : k \notin active_keys

=============================================================================
